---- MODULE Spec2Model ----
(***************************************************************************)
(* Taymagotchi: the pet state machine (pet.py) and the application loop    *)
(* that drives it (app.py).                                                *)
(*                                                                         *)
(* Representation.  The stats are Python floats in percent.  They are kept *)
(* here as integers in units of 1/Scale percent, Scale = 60, which makes   *)
(* the decay of STAT_DECAY_PER_MIN = 1/60 percent per minute exactly one   *)
(* unit per minute.  Wall-clock times (time.time()) are whole seconds.     *)
(***************************************************************************)
EXTENDS Integers, Sequences, FiniteSets, TLC

\* ------------------------------------------------------------------ bounds
\* The wall clock runs for at most MaxDays days after the first start.
MaxDays == 3
\* The same for the runs of the application.
AppDays == 2
\* Input events handled in one frame of the main loop.
MaxBatch == 2
\* Floating hearts alive at a time.
MaxHearts == 6
\* Steps of the clock in a run with weather.
WeatherSpan == 6

\* --------------------------------------------------------------- constants
Scale == 60
FEED_AMOUNT == 25
PLAY_AMOUNT == 25
AUTOSAVE_SECONDS == 300
WEATHER_POLL_SECONDS == 600
DAY == 86400
\* time.time() when the program is first started: day 20000 of the epoch.
StartTime == 20000 * DAY

Pct(n) == n * Scale
Min(a, b) == IF a <= b THEN a ELSE b
Max(a, b) == IF a >= b THEN a ELSE b

\* settings.STAT_DECAY_PER_MIN = 1/60 percent per minute, times an elapsed
\* number of minutes, in stat units.
Decay(minutes) == (minutes * Scale) \div 60

\* ------------------------------------------------------------------ inputs
\* Elapsed minutes handed to tick: none, a quarter and the whole of a bar.
Minutes == {0, 1500, 6000}
\* Wall-clock time that passes between two operations.
ElapseSteps == {DAY \div 2, DAY}

VARIABLES
    state,   \* Pet.state : PetState
    now,     \* the wall clock, time.time()
    file,    \* the save file at settings.SAVE_PATH
    app,     \* the App object and the position of its main loop
    hist     \* the last operation and the pet state it started from

vars == <<state, now, file, app, hist>>

\* PetState()
PetState ==
    [hunger |-> 0, thirst |-> 0, happiness |-> Pct(100), level |-> 1,
     last_level_update |-> 0, is_neglected |-> FALSE]

food_bar(s) == Max(0, Pct(100) - s.hunger)
water_bar(s) == Max(0, Pct(100) - s.thirst)
heart_bar(s) == s.happiness

\* Variant: one empty bar is enough.
Neglected_any(s) == food_bar(s) <= 0 \/ water_bar(s) <= 0 \/ heart_bar(s) <= 0

\* The neglect test of tick on the freshly decayed stats.
Neglected(s) == food_bar(s) <= 0 /\ water_bar(s) <= 0 /\ heart_bar(s) <= 0

\* Variant: decay without the clamps.
decay_unclamped(s, d) ==
    [s EXCEPT !.hunger = s.hunger + d,
              !.thirst = s.thirst + d,
              !.happiness = s.happiness - d]

\* The three decay assignments of tick.
decay(s, d) ==
    [s EXCEPT !.hunger = Min(Pct(100), s.hunger + d),
              !.thirst = Min(Pct(100), s.thirst + d),
              !.happiness = Max(0, s.happiness - d)]

\* Variant: the penalty is not floored at 1.
level_update_nofloor(s, t) ==
    LET time_since_level_update == t - s.last_level_update
        days_elapsed == time_since_level_update \div DAY
    IN  IF time_since_level_update >= DAY
        THEN [s EXCEPT !.level = IF s.is_neglected
                                 THEN s.level - days_elapsed
                                 ELSE s.level + days_elapsed,
                       !.last_level_update = t]
        ELSE s

\* Variant: one level per tick, however many days have elapsed.
level_update_one(s, t) ==
    LET time_since_level_update == t - s.last_level_update
    IN  IF time_since_level_update >= DAY
        THEN [s EXCEPT !.level = IF s.is_neglected
                                 THEN Max(1, s.level - 1)
                                 ELSE s.level + 1,
                       !.last_level_update = t]
        ELSE s

\* Variant: the timestamp advances by the whole days counted, carrying the
\* remainder of a day forward.
level_update_carry(s, t) ==
    LET time_since_level_update == t - s.last_level_update
        days_elapsed == time_since_level_update \div DAY
    IN  IF time_since_level_update >= DAY
        THEN [s EXCEPT !.level = IF s.is_neglected
                                 THEN Max(1, s.level - days_elapsed)
                                 ELSE s.level + days_elapsed,
                       !.last_level_update = s.last_level_update + days_elapsed * DAY]
        ELSE s

\* Variant: the level is adjusted, the timestamp is left as it was.
level_update_nostamp(s, t) ==
    LET time_since_level_update == t - s.last_level_update
        days_elapsed == time_since_level_update \div DAY
    IN  IF time_since_level_update >= DAY
        THEN [s EXCEPT !.level = IF s.is_neglected
                                 THEN Max(1, s.level - days_elapsed)
                                 ELSE s.level + days_elapsed]
        ELSE s

\* Variant: the two branches of the adjustment are swapped.
level_update_swapped(s, t) ==
    LET time_since_level_update == t - s.last_level_update
        days_elapsed == time_since_level_update \div DAY
    IN  IF time_since_level_update >= DAY
        THEN [s EXCEPT !.level = IF ~s.is_neglected
                                 THEN Max(1, s.level - days_elapsed)
                                 ELSE s.level + days_elapsed,
                       !.last_level_update = t]
        ELSE s

\* The day-boundary level adjustment of tick; t is the second clock reading.
level_update(s, t) ==
    LET time_since_level_update == t - s.last_level_update
        days_elapsed == time_since_level_update \div DAY
    IN  IF time_since_level_update >= DAY
        THEN [s EXCEPT !.level = IF s.is_neglected
                                 THEN Max(1, s.level - days_elapsed)
                                 ELSE s.level + days_elapsed,
                       !.last_level_update = t]
        ELSE s

\* Variant: neglect is sticky, once set it is only confirmed.
tick_sticky(s, d, t1, t2) ==
    LET s1 == decay(s, d)
        s2 == [s1 EXCEPT !.is_neglected = s.is_neglected \/ Neglected(s1)]
    IN  level_update(s2, t2)

\* Variant: the timer is stamped on every tick.
tick_stamps(s, d, t1, t2) ==
    LET s1 == decay(s, d)
        s2 == [s1 EXCEPT !.is_neglected = Neglected(s1)]
        s3 == [s2 EXCEPT !.last_level_update = t1]
    IN  level_update(s3, t2)

\* Variant: recovery does not restart the timer.
tick_norecover(s, d, t1, t2) ==
    LET s1 == decay(s, d)
        s2 == [s1 EXCEPT !.is_neglected = Neglected(s1)]
    IN  level_update(s2, t2)

\* Variant: the level is adjusted before the recovery is looked at.
tick_level_first(s, d, t1, t2) ==
    LET s1 == decay(s, d)
        was_neglected == s.is_neglected
        s2 == level_update([s1 EXCEPT !.is_neglected = Neglected(s1)], t2)
    IN  IF was_neglected /\ ~s2.is_neglected
        THEN [s2 EXCEPT !.last_level_update = t1]
        ELSE s2

\* Pet.tick(minutes_elapsed, decay_rate) where d = decay_rate * minutes_elapsed
\* and t1, t2 are the two readings of time.time().
tick(s, d, t1, t2) ==
    LET s1 == decay(s, d)
        was_neglected == s.is_neglected
        s2 == [s1 EXCEPT !.is_neglected = Neglected(s1)]
        s3 == IF was_neglected /\ ~s2.is_neglected
              THEN [s2 EXCEPT !.last_level_update = t1]
              ELSE s2
    IN  level_update(s3, t2)

feed(s, amount) == [s EXCEPT !.hunger = Max(0, s.hunger - amount)]
drink(s, amount) == [s EXCEPT !.thirst = Max(0, s.thirst - amount)]
\* Variant: play without the upper clamp.
play_unclamped(s, amount) == [s EXCEPT !.happiness = s.happiness + amount]
play(s, amount) == [s EXCEPT !.happiness = Min(Pct(100), s.happiness + amount)]
\* Variant: reset leaves the timestamp of a fresh PetState, 0.0.
reset_epoch(s, t) == PetState
reset(s, t) == [PetState EXCEPT !.last_level_update = t]

\* Variant: the lowest bar decides, the critical thresholds are not looked at.
mood_lowest(s) ==
    LET food == Pct(100) - s.hunger
        water == Pct(100) - s.thirst
        heart == s.happiness
        min_stat == Min(food, Min(water, heart))
    IN  IF food > Pct(70) /\ water > Pct(70) /\ heart > Pct(70) THEN "happy"
        ELSE IF min_stat = food THEN "hungry"
        ELSE IF min_stat = water THEN "thirsty"
        ELSE "sad"

\* Pet.mood
mood(s) ==
    LET food == Pct(100) - s.hunger
        water == Pct(100) - s.thirst
        heart == s.happiness
        min_stat == Min(food, Min(water, heart))
    IN  IF food > Pct(70) /\ water > Pct(70) /\ heart > Pct(70) THEN "happy"
        ELSE IF food < Pct(30) THEN "hungry"
        ELSE IF water < Pct(30) THEN "thirsty"
        ELSE IF heart < Pct(30) THEN "sad"
        ELSE IF min_stat = food THEN "hungry"
        ELSE IF min_stat = water THEN "thirsty"
        ELSE "sad"

\* The save file: absent, or the JSON of a PetState as Pet.save writes it.
NoFile == [kind |-> "none", data |-> PetState]
JsonFile(s) == [kind |-> "json", data |-> s]

\* Pet.load
load(s, f) == IF f.kind = "json" THEN f.data ELSE s

\* Variant: the timestamp is left as load found it.
PetInit_epoch(f, t) == load(PetState, f)

\* Pet.__init__
PetInit(f, t) ==
    LET s == load(PetState, f)
    IN  IF s.last_level_update = 0 THEN [s EXCEPT !.last_level_update = t] ELSE s

\* What has happened in the current iteration of the main loop: the input
\* events handled, the action handlers invoked, whether the tick has run.
NewFrame == [events |-> 0, actions |-> 0, ticked |-> FALSE]
\* The last input event handled in the current batch: its type and position,
\* the emoji dragged when it arrived, the
\* recorded drag position when it arrived, the handler it invoked, the number
\* of calls of spawn_floating_hearts it made and the hearts these added.
NoEvent == [type |-> "None", pos |-> "None", dragged |-> "None",
            drag_pos |-> "None", acted |-> "None", spawned |-> 0, hearts |-> 0]

\* A Weather value (temp_c, condition, icon_key); None is the empty tuple.
None == << >>
Weather(temp_c, condition, icon_key) == <<temp_c, condition, icon_key>>
\* The last weather fetch that finished: how it ended, the value it returned,
\* the time it started, and App.weather and the provider's cache stamp before.
NoFetch == [outcome |-> "None", result |-> None, started |-> 0,
            pre |-> None, pre_ts |-> 0]

\* The App object as App.__init__ leaves it, before a process exists.  pc is
\* the position in App._run_async: "stopped" (no process), "events" (in
\* handle_events), "tick", "autosave", "draw" (the rest of the loop body).
AppIdle ==
    [pc |-> "stopped", running |-> FALSE, next_autosave |-> 0,
     dragged_emoji |-> "None", drag_pos |-> "None",
     emoji_rects |-> << >>, pet_rect |-> "None",
     floating_hearts |-> 0, minutes |-> 0,
     weather |-> None, next_weather_refresh |-> 0,
     created |-> FALSE, fetching |-> {},
     cache |-> None, cache_ts |-> 0,
     frame |-> NewFrame, ev |-> NoEvent, wx |-> NoFetch]

\* The amount the program hands to a handler: settings.FEED_AMOUNT for feed
\* and drink, settings.PLAY_AMOUNT for play.
Amount(op) ==
    CASE op \in {"feed", "drink"} -> FEED_AMOUNT
      [] op = "play" -> PLAY_AMOUNT
      [] OTHER -> 0

\* The record of an operation on the pet: its name, the state it started
\* from, the wall-clock time at which it ran, the value it returned and the
\* amount it was given.
Did(op) ==
    [op |-> op, pre |-> state, at |-> now, ret |-> "None", arg |-> Amount(op)]

Init ==
    /\ now = StartTime
    /\ file = NoFile
    /\ state = PetInit(NoFile, StartTime)
    /\ app = AppIdle
    /\ hist = [op |-> "init", pre |-> state, at |-> now, ret |-> "None", arg |-> 0]

\* Wall-clock time passes, up to a number of days after StartTime: between
\* two calls on the pet, between two frames of the main loop, or while the
\* program is not running.
Elapse(d, days) ==
    /\ app.pc \in {"stopped", "events"}
    /\ now + d <= StartTime + days * DAY
    /\ now' = now + d
    /\ UNCHANGED <<state, file, app, hist>>

Tick(minutes) ==
    /\ state' = tick(state, Decay(minutes), now, now)
    /\ hist' = Did("tick")
    /\ UNCHANGED <<now, file, app>>

Feed ==
    /\ state' = feed(state, Pct(FEED_AMOUNT))
    /\ hist' = Did("feed")
    /\ UNCHANGED <<now, file, app>>

Drink ==
    /\ state' = drink(state, Pct(FEED_AMOUNT))
    /\ hist' = Did("drink")
    /\ UNCHANGED <<now, file, app>>

Play ==
    /\ state' = play(state, Pct(PLAY_AMOUNT))
    /\ hist' = Did("play")
    /\ UNCHANGED <<now, file, app>>

Reset ==
    /\ state' = reset(state, now)
    /\ hist' = Did("reset")
    /\ UNCHANGED <<now, file, app>>

\* Pet.mood reads the state and returns a string.
Mood ==
    /\ hist' = [Did("mood") EXCEPT !.ret = mood(state)]
    /\ UNCHANGED <<state, now, file, app>>

Next ==
    \/ \E d \in ElapseSteps : Elapse(d, MaxDays)
    \/ \E m \in Minutes : Tick(m)
    \/ Feed
    \/ Drink
    \/ Play
    \/ Reset
    \/ Mood

Spec == Init /\ [][Next]_vars

\* ------------------------------------------------------- the application
\* Points of the screen, named after the hit region they lie in: one of the
\* three emoji rectangles of draw_status_bars, the pet rectangle of draw_pet,
\* or none of them.  The rectangles do not overlap.
Points == {"feed", "drink", "play", "pet", "else"}
\* pygame.Rect.collidepoint
collidepoint(rect, pos) == pos = rect

\* Variant: the loop body ticks first and handles the events afterwards.
after_tick_first(pc) ==
    CASE pc = "draw" -> "tick"
      [] pc = "tick" -> "events"
      [] pc = "events" -> "autosave"
      [] pc = "autosave" -> "draw"

\* The order of the loop body of App._run_async; "draw" is followed by the
\* head of the next iteration.
after(pc) ==
    CASE pc = "draw" -> "events"
      [] pc = "events" -> "tick"
      [] pc = "tick" -> "autosave"
      [] pc = "autosave" -> "draw"

\* App.__init__ and the head of App._run_async at time t.
AppStarted(t) ==
    [AppIdle EXCEPT !.pc = after("draw"), !.running = TRUE,
                    !.next_autosave = t + AUTOSAVE_SECONDS]

\* A process is started.
Start ==
    /\ app.pc = "stopped"
    /\ state' = PetInit(file, now)
    /\ app' = AppStarted(now)
    /\ hist' = [op |-> "init", pre |-> state', at |-> now, ret |-> "None", arg |-> 0]
    /\ UNCHANGED <<now, file>>

\* What Pet.save can leave in the file: the snapshot; the old content when
\* open fails; a truncated file when the write fails after open(path, "w").
Garbage == [kind |-> "garbage", data |-> PetState]
SaveOutcomes(f, s) == {JsonFile(s), f, Garbage}
\* What Pet.save prints: nothing when json.dump returned, "Failed to save
\* state" when open or the write raised.
Report(f, s) == IF f.kind = "json" /\ f.data = s THEN "saved" ELSE "failed"

\* App.spawn_floating_hearts
spawn_floating_hearts(a) ==
    IF a.pet_rect = "None" THEN a
    ELSE [a EXCEPT !.floating_hearts = @ + 3]

\* One of the calls self.pet.feed / drink / play / reset of handle_events.
Handle(h, s, t) ==
    CASE h = "feed" -> feed(s, Pct(FEED_AMOUNT))
      [] h = "drink" -> drink(s, Pct(FEED_AMOUNT))
      [] h = "play" -> play(s, Pct(PLAY_AMOUNT))
      [] h = "reset" -> reset(s, t)

\* Variant: the test of key f is repeated in front of the drink branch.
KeyHandlers_fall(key) ==
    CASE key = "f" -> <<"feed", "drink">>
      [] key = "d" -> <<"drink">>
      [] key = "p" -> <<"play">>
      [] key = "r" -> <<"reset">>

\* The handlers the KEYDOWN branch of handle_events calls for a key.
KeyHandlers(key) ==
    CASE key = "f" -> <<"feed">>
      [] key = "d" -> <<"drink">>
      [] key = "p" -> <<"play">>
      [] key = "r" -> <<"reset">>

RECURSIVE RunHandlers(_, _, _)
RunHandlers(hs, s, t) ==
    IF hs = << >> THEN s ELSE RunHandlers(Tail(hs), Handle(Head(hs), s, t), t)

RECURSIVE SpawnTimes(_, _)
SpawnTimes(n, a) == IF n = 0 THEN a ELSE SpawnTimes(n - 1, spawn_floating_hearts(a))

Actions(hs) == SelectSeq(hs, LAMBDA h : h # "reset")

\* An input event is taken from the batch: at most MaxBatch events a frame,
\* and room for the hearts it may spawn.
TakeEvent ==
    /\ app.pc = "events"
    /\ app.frame.events < MaxBatch
    /\ app.floating_hearts + 3 <= MaxHearts

\* The ghost fields after an event that invoked n action handlers.
Noted(a, type, pos, acted, n) ==
    [a EXCEPT !.frame.events = @ + 1, !.frame.actions = @ + n,
              !.ev = [type |-> type, pos |-> pos, dragged |-> app.dragged_emoji,
                      drag_pos |-> app.drag_pos, acted |-> acted, spawned |-> n,
                      hearts |-> a.floating_hearts - app.floating_hearts]]

\* handle_events: one KEYDOWN event of the batch, key f, d, p or r.
KeyDown(key) ==
    LET hs == KeyHandlers(key)
        n == Len(Actions(hs))
    IN  /\ TakeEvent
        /\ state' = RunHandlers(hs, state, now)
        /\ hist' = [Did(hs[Len(hs)]) EXCEPT
                       !.pre = RunHandlers(SubSeq(hs, 1, Len(hs) - 1), state, now)]
        /\ app' = Noted(SpawnTimes(n, app), "key", "None",
                        IF n = 0 THEN "None" ELSE hs[Len(hs)], n)
        /\ UNCHANGED <<now, file>>

\* The first emoji rectangle, in the order of the dict, that holds pos.
FirstHit(rects, pos) ==
    LET hits == SelectSeq(rects, LAMBDA r : collidepoint(r, pos))
    IN  IF hits = << >> THEN "None" ELSE Head(hits)

\* handle_events: a MOUSEBUTTONDOWN event at pos.
MouseDown(pos) ==
    LET hit == FirstHit(app.emoji_rects, pos)
        a == IF hit = "None" THEN app
             ELSE [app EXCEPT !.dragged_emoji = hit, !.drag_pos = pos]
    IN  /\ TakeEvent
        /\ app' = Noted(a, "down", pos, "None", 0)
        /\ UNCHANGED <<state, now, file, hist>>

\* Variant: the position is recorded whether or not an emoji is dragged.
MouseMotion_always(pos) ==
    /\ TakeEvent
    /\ app' = Noted([app EXCEPT !.drag_pos = pos], "move", pos, "None", 0)
    /\ UNCHANGED <<state, now, file, hist>>

\* handle_events: a MOUSEMOTION event at pos.
MouseMotion(pos) ==
    LET a == IF app.dragged_emoji # "None" THEN [app EXCEPT !.drag_pos = pos]
             ELSE app
    IN  /\ TakeEvent
        /\ app' = Noted(a, "move", pos, "None", 0)
        /\ UNCHANGED <<state, now, file, hist>>

\* Variant: the drop is tested at the position of the MOUSEBUTTONUP event.
DropPoint_up(a, pos) == pos

\* The position handle_events tests against the pet rectangle on
\* MOUSEBUTTONUP: the recorded drag position; the event's pos is not read.
DropPoint(a, pos) == a.drag_pos

\* handle_events: a MOUSEBUTTONUP event at pos.
MouseUp(pos) ==
    LET drop == /\ app.dragged_emoji # "None" /\ app.drag_pos # "None"
                /\ app.pet_rect # "None"
                /\ collidepoint(app.pet_rect, DropPoint(app, pos))
        a == IF drop THEN spawn_floating_hearts(app) ELSE app
        b == [a EXCEPT !.dragged_emoji = "None", !.drag_pos = "None"]
    IN  /\ TakeEvent
        /\ state' = IF drop THEN Handle(app.dragged_emoji, state, now) ELSE state
        /\ hist' = IF drop THEN Did(app.dragged_emoji) ELSE hist
        /\ app' = Noted(b, "up", pos, IF drop THEN app.dragged_emoji ELSE "None",
                        IF drop THEN 1 ELSE 0)
        /\ UNCHANGED <<now, file>>

\* Variant: the quit event is only taken while no emoji is dragged.
Quit_idle_only ==
    /\ app.pc = "events"
    /\ app.dragged_emoji = "None"
    /\ \E f \in SaveOutcomes(file, state) :
           file' = f /\ hist' = [Did("save") EXCEPT !.ret = Report(f, state)]
    /\ app' = [app EXCEPT !.pc = after("events"), !.running = FALSE,
                          !.ev = [NoEvent EXCEPT !.type = "quit",
                                                 !.dragged = app.dragged_emoji]]
    /\ UNCHANGED <<state, now>>

\* handle_events: a QUIT event or the escape key: save and return False.
Quit ==
    /\ app.pc = "events"
    /\ \E f \in SaveOutcomes(file, state) :
           file' = f /\ hist' = [Did("save") EXCEPT !.ret = Report(f, state)]
    /\ app' = [app EXCEPT !.pc = after("events"), !.running = FALSE,
                          !.ev = [NoEvent EXCEPT !.type = "quit",
                                                 !.dragged = app.dragged_emoji]]
    /\ UNCHANGED <<state, now>>

\* handle_events: the batch is exhausted, return True.
EventsDone ==
    /\ app.pc = "events"
    /\ app' = [app EXCEPT !.pc = after("events"), !.running = TRUE,
                          !.ev = NoEvent]
    /\ UNCHANGED <<state, now, file, hist>>

\* _run_async: the weather test: when the refresh is due, a task running
\* update_weather is created and the next refresh is put off.
refresh_weather(a, t) ==
    IF t > a.next_weather_refresh
    THEN [a EXCEPT !.created = TRUE,
                   !.next_weather_refresh = t + WEATHER_POLL_SECONDS]
    ELSE a

\* _run_async: self.pet.tick(minutes, settings.STAT_DECAY_PER_MIN), with the
\* minutes of dt_ms, and the weather test that follows it.
FrameTick(minutes) ==
    /\ app.pc = "tick"
    /\ state' = tick(state, Decay(minutes), now, now)
    /\ app' = [refresh_weather(app, now) EXCEPT
                   !.pc = after("tick"), !.minutes = minutes,
                   !.frame.ticked = TRUE]
    /\ hist' = Did("tick")
    /\ UNCHANGED <<now, file>>

\* _run_async: the autosave test, with the save when it is due.
Autosave ==
    /\ app.pc = "autosave"
    /\ IF now > app.next_autosave
       THEN /\ \E f \in SaveOutcomes(file, state) :
                   file' = f /\ hist' = [Did("save") EXCEPT !.ret = Report(f, state)]
            /\ app' = [app EXCEPT !.pc = after("autosave"),
                                  !.next_autosave = now + AUTOSAVE_SECONDS]
       ELSE /\ app' = [app EXCEPT !.pc = after("autosave")]
            /\ UNCHANGED <<file, hist>>
    /\ UNCHANGED <<state, now>>

\* App.update_floating_hearts(dt_seconds): every heart ages by dt_seconds and
\* is removed past its lifespan of 1.5 s (the spawn delay is at most 0.2 s).
update_floating_hearts(hearts, minutes) ==
    IF 10 * (minutes * 60) - 2 > 15 THEN 0 ELSE hearts

\* The lifetime of the provider's cache, PythonWeatherProvider._ttl.
CACHE_TTL == 600

\* update_weather up to its first wait, at time t: the task created in this
\* frame runs get_async, which returns the cache while it is fresh and
\* otherwise starts a request.
start_task(a, t) ==
    IF ~a.created THEN a
    ELSE IF a.cache # None /\ t - a.cache_ts < CACHE_TTL
    THEN [a EXCEPT !.created = FALSE, !.weather = a.cache,
                   !.wx = [outcome |-> "ok", result |-> a.cache, started |-> t,
                           pre |-> a.weather, pre_ts |-> a.cache_ts]]
    ELSE [a EXCEPT !.created = FALSE, !.fetching = @ \cup {t}]

\* _run_async: update_floating_hearts, draw (which asks the pet for its mood
\* and returns the hit rectangles), asyncio.sleep(0), which lets the task
\* created in this frame start, and the loop test.
Draw ==
    /\ app.pc = "draw"
    /\ app' = IF app.running
              THEN [start_task(app, now) EXCEPT
                               !.pc = after("draw"),
                               !.floating_hearts =
                                   update_floating_hearts(@, app.minutes),
                               !.minutes = 0,
                               !.pet_rect = "pet",
                               !.emoji_rects = <<"feed", "drink", "play">>,
                               !.frame = NewFrame, !.ev = NoEvent]
              ELSE AppIdle
    /\ hist' = [Did("mood") EXCEPT !.ret = mood(state)]
    /\ UNCHANGED <<state, now, file>>

\* Variant: a failed fetch always installs the placeholder.
on_failure_placeholder(w) == Weather(0, "N/A", "clouds")

\* update_weather, the except branch: keep the last known weather, or fall
\* back to the placeholder when there is none.
on_failure(w) == IF w = None THEN Weather(0, "N/A", "clouds") ELSE w

\* Tasks run while the main loop waits in asyncio.sleep(0), between the
\* drawing of one frame and the events of the next.
TasksRun == app.pc = "events" /\ app.frame.events = 0

\* update_weather: the request started at time t returns w; get_async
\* stores it in the cache with the time the request started.
FetchDone(t, w) ==
    /\ TasksRun
    /\ t \in app.fetching
    /\ app' = [app EXCEPT !.weather = w, !.cache = w, !.cache_ts = t,
                          !.fetching = @ \ {t},
                          !.wx = [outcome |-> "ok", result |-> w, started |-> t,
                                  pre |-> app.weather, pre_ts |-> app.cache_ts]]
    /\ UNCHANGED <<state, now, file, hist>>

\* update_weather: the request started at time t raises.
FetchFailed(t) ==
    /\ TasksRun
    /\ t \in app.fetching
    /\ app' = [app EXCEPT !.weather = on_failure(@),
                          !.fetching = @ \ {t},
                          !.wx = [outcome |-> "failed", result |-> None,
                                  started |-> t,
                                  pre |-> app.weather, pre_ts |-> app.cache_ts]]
    /\ UNCHANGED <<state, now, file, hist>>

\* reset_save.py, confirmed with y, while the program is not running.
ResetSave ==
    /\ app.pc = "stopped"
    /\ file' = JsonFile([PetState EXCEPT !.last_level_update = now])
    /\ UNCHANGED <<state, now, app, hist>>

\* The inputs of the application runs: the keys pressed, the minutes of a
\* frame, the wall-clock time between frames or between runs.
AppKeys == {"f", "p", "r"}
AppMinutes == {0, 6000}
AppElapseSteps == {DAY}

NextApp ==
    \/ \E d \in AppElapseSteps : Elapse(d, AppDays)
    \/ Start
    \/ \E k \in AppKeys : KeyDown(k)
    \/ Quit
    \/ EventsDone
    \/ \E m \in AppMinutes : FrameTick(m)
    \/ Autosave
    \/ Draw
    \/ ResetSave

SpecApp == Init /\ [][NextApp]_vars

\* ------------------------------------------------- one run, with the pointer
\* One run of the program from a first start without a save file, with the
\* pointer and all the keys, on one day.
UIKeys == {"f", "d", "p", "r"}

InitUI ==
    /\ now = StartTime
    /\ file = NoFile
    /\ state = PetInit(NoFile, StartTime)
    /\ app = AppStarted(StartTime)
    /\ hist = [op |-> "init", pre |-> state, at |-> now, ret |-> "None", arg |-> 0]

NextUI ==
    \/ \E p \in Points : MouseDown(p)
    \/ \E p \in Points : MouseMotion(p)
    \/ \E p \in Points : MouseUp(p)
    \/ \E k \in UIKeys : KeyDown(k)
    \/ Quit
    \/ EventsDone
    \/ \E m \in AppMinutes : FrameTick(m)
    \/ Autosave
    \/ Draw

SpecUI == InitUI /\ [][NextUI]_vars

\* The same run with the scheduling of _run_async: once handle_events has
\* returned, the rest of the loop body (tick, autosave test, draw) runs to
\* the end without waiting for anything.
FairUI ==
    /\ WF_vars(\E m \in AppMinutes : FrameTick(m))
    /\ WF_vars(Autosave)
    /\ WF_vars(Draw)

SpecUIFair == SpecUI /\ FairUI

\* ------------------------------------------------------ one run, weather
\* One run of the program in which the weather requests are answered: the
\* clock advances in steps of WeatherStep seconds, between frames and inside
\* a frame, for WeatherSpan steps.
WeatherStep == 300
Reports == {Weather(21, "Sunny", "clear"), Weather(4, "Light rain", "rain")}

WeatherElapse ==
    /\ app.pc \in {"events", "draw"}
    /\ now + WeatherStep <= StartTime + WeatherSpan * WeatherStep
    /\ now' = now + WeatherStep
    /\ UNCHANGED <<state, file, app, hist>>

NextWeather ==
    \/ WeatherElapse
    \/ EventsDone
    \/ \E m \in {0} : FrameTick(m)
    \/ Autosave
    \/ Draw
    \/ \E t \in app.fetching : \E w \in Reports : FetchDone(t, w)
    \/ \E t \in app.fetching : FetchFailed(t)

SpecWeather == InitUI /\ [][NextWeather]_vars

\* ------------------------------------------------ starting from any file
\* What the save file can hold when the program starts: nothing, content
\* that json.load or PetState(**data) rejects, or a JSON object whose keys
\* are fields of PetState, with any numbers as values.
FileHunger == {0, Pct(50), Pct(500)}
FileHappiness == {-Pct(10), Pct(100)}
FileLevel == {0, 1, 2}
FileContents ==
    {NoFile, Garbage} \cup
    {JsonFile([PetState EXCEPT !.hunger = h, !.happiness = p, !.level = l]) :
        h \in FileHunger, p \in FileHappiness, l \in FileLevel}

InitLoad ==
    /\ now = StartTime
    /\ file \in FileContents
    /\ state = PetState
    /\ app = AppIdle
    /\ hist = [op |-> "None", pre |-> state, at |-> now, ret |-> "None", arg |-> 0]

NextLoad ==
    \/ Start
    \/ Quit
    \/ EventsDone
    \/ \E m \in AppMinutes : FrameTick(m)
    \/ Autosave
    \/ Draw

SpecLoad == InitLoad /\ [][NextLoad]_vars

\* ------------------------------------------- the handlers, for any amount
\* Amounts handed to feed, drink and play, in percent: negative, zero, the
\* configured one and oversized ones.
Amounts == {-200, -25, 0, 25, 200}
\* Stat values the handlers start from, in percent.
StatGrid == {0, 10, 50, 100}

InitAny ==
    /\ now = StartTime
    /\ file = NoFile
    /\ \E h \in StatGrid, t \in StatGrid, p \in StatGrid :
           state = [PetInit(NoFile, StartTime) EXCEPT
                       !.hunger = Pct(h), !.thirst = Pct(t), !.happiness = Pct(p)]
    /\ app = AppIdle
    /\ hist = [op |-> "init", pre |-> state, at |-> now, ret |-> "None", arg |-> 0]

\* The handlers are applied to states whose stats are in [0, 100].
Valid(s) ==
    /\ 0 <= s.hunger /\ s.hunger <= Pct(100)
    /\ 0 <= s.thirst /\ s.thirst <= Pct(100)
    /\ 0 <= s.happiness /\ s.happiness <= Pct(100)

FeedAny(amount) ==
    /\ Valid(state)
    /\ state' = feed(state, Pct(amount))
    /\ hist' = [Did("feed") EXCEPT !.arg = amount]
    /\ UNCHANGED <<now, file, app>>

DrinkAny(amount) ==
    /\ Valid(state)
    /\ state' = drink(state, Pct(amount))
    /\ hist' = [Did("drink") EXCEPT !.arg = amount]
    /\ UNCHANGED <<now, file, app>>

PlayAny(amount) ==
    /\ Valid(state)
    /\ state' = play(state, Pct(amount))
    /\ hist' = [Did("play") EXCEPT !.arg = amount]
    /\ UNCHANGED <<now, file, app>>

NextAny ==
    \/ \E a \in Amounts : FeedAny(a)
    \/ \E a \in Amounts : DrinkAny(a)
    \/ \E a \in Amounts : PlayAny(a)

SpecAny == InitAny /\ [][NextAny]_vars

\* ------------------------------------------------ mood, for any bar values
\* Stat values around the thresholds of mood, in stat units.
MoodGrid ==
    {0, Pct(29), Pct(30) - 1, Pct(30), Pct(30) + 1, Pct(50),
     Pct(70) - 1, Pct(70), Pct(70) + 1, Pct(71), Pct(100)}

InitMood ==
    /\ now = StartTime
    /\ file = NoFile
    /\ \E h \in MoodGrid, t \in MoodGrid, p \in MoodGrid :
           state = [PetInit(NoFile, StartTime) EXCEPT
                       !.hunger = h, !.thirst = t, !.happiness = p]
    /\ app = AppIdle
    /\ hist = [op |-> "init", pre |-> state, at |-> now, ret |-> "None", arg |-> 0]

NextMood == Mood

SpecMood == InitMood /\ [][NextMood]_vars

\* ================================================================ claims
InRange(x) == 0 <= x /\ x <= Pct(100)
AllBarsZero(s) == food_bar(s) = 0 /\ water_bar(s) = 0 /\ heart_bar(s) = 0
SomeBarUp(s) == food_bar(s) > 0 \/ water_bar(s) > 0 \/ heart_bar(s) > 0
\* The last operation was a tick and this is the state it left.
AfterTick == hist.op = "tick"
\* That tick found the pet recovered from neglect.
Recovered == hist.pre.is_neglected /\ ~state.is_neglected
\* Whole days between the timestamp the last operation started from and the
\* time at which it ran.
DaysSince == (hist.at - hist.pre.last_level_update) \div DAY

\* C1: in every state reachable by tick, feed, drink, play and reset with the
\* configured amounts, hunger, thirst and happiness lie in [0, 100].
StatsInRange ==
    InRange(state.hunger) /\ InRange(state.thirst) /\ InRange(state.happiness)

\* A tick whose decay overshoots both ends: hunger 75 + 100, happiness 25 - 100.
W_StatsClamped ==
    /\ AfterTick
    /\ hist.pre.hunger = Pct(75) /\ state.hunger = Pct(100)
    /\ hist.pre.happiness = Pct(25) /\ state.happiness = 0

\* C2: for any amount, negative and oversized ones included, feed, drink and
\* play applied to stats in [0, 100] leave hunger, thirst and happiness in
\* [0, 100].
AnyAmountClamped ==
    hist.op \in {"feed", "drink", "play"} /\ Valid(hist.pre) =>
        InRange(state.hunger) /\ InRange(state.thirst) /\ InRange(state.happiness)

\* C3: level >= 1 in every reachable state.
LevelAtLeastOne == state.level >= 1

\* A tick on a neglected pet at level 1 with two elapsed days leaves level 1.
W_LevelFloor ==
    /\ AfterTick
    /\ hist.pre.is_neglected /\ state.is_neglected
    /\ hist.pre.level = 1 /\ DaysSince = 2
    /\ state.level = 1

\* C4 as stated: in every reachable state is_neglected holds if and only if
\* all three bars are 0.
NeglectedIffAllBarsZero == state.is_neglected <=> AllBarsZero(state)

\* C4 amended: all three bars at 0 implies is_neglected in every reachable
\* state, and the equivalence holds in the states left by tick and by reset;
\* after feed, drink or play is_neglected keeps the value of the last tick
\* until the next one.
NeglectedUnlessJustActed ==
    /\ AllBarsZero(state) => state.is_neglected
    /\ hist.op \in {"tick", "reset"} =>
           (state.is_neglected <=> AllBarsZero(state))

\* A neglected pet has just been fed: the flag is still set, a bar is up.
W_StaleNeglect ==
    /\ hist.op = "feed"
    /\ AllBarsZero(hist.pre) /\ hist.pre.is_neglected
    /\ state.is_neglected /\ food_bar(state) = Pct(25)

\* C5: immediately after every tick is_neglected equals the test
\* food_bar <= 0 and water_bar <= 0 and heart_bar <= 0 on the stats that
\* tick has just written, whatever is_neglected was before.
NeglectRecomputedByTick ==
    AfterTick =>
        (state.is_neglected =
            (food_bar(state) <= 0 /\ water_bar(state) <= 0 /\ heart_bar(state) <= 0))

\* A tick that started from is_neglected = TRUE and left it FALSE.
W_NeglectCleared == AfterTick /\ hist.pre.is_neglected /\ ~state.is_neglected

\* C6 as stated: last_level_update changes only in a tick that crosses a day
\* boundary or that finds the pet recovered from neglect.
TimerChangesOnlyInTick ==
    state.last_level_update # hist.pre.last_level_update =>
        AfterTick /\ (DaysSince >= 1 \/ Recovered)

\* C6 amended: last_level_update changes only in such a tick or in reset.
TimerChangesOnlyInTickOrReset ==
    state.last_level_update # hist.pre.last_level_update =>
        \/ AfterTick /\ (DaysSince >= 1 \/ Recovered)
        \/ hist.op = "reset"

\* A tick half a day after the timestamp, on a pet that stays healthy, and
\* the timestamp is the one it started from.
W_TimerKept ==
    /\ AfterTick /\ ~hist.pre.is_neglected /\ ~state.is_neglected
    /\ hist.at - hist.pre.last_level_update = DAY \div 2
    /\ state.last_level_update = hist.pre.last_level_update

\* C7 as stated: a tick that starts from is_neglected = TRUE with a bar above
\* 0 clears is_neglected and sets last_level_update to its own time, for any
\* elapsed minutes.
RecoveryAlways ==
    AfterTick /\ hist.pre.is_neglected /\ SomeBarUp(hist.pre) =>
        ~state.is_neglected /\ state.last_level_update = hist.at

\* C7 amended: it does so provided a bar is still above 0 after the decay of
\* that tick.
RecoveryIfBarSurvives ==
    AfterTick /\ hist.pre.is_neglected /\ SomeBarUp(hist.pre) /\ SomeBarUp(state) =>
        ~state.is_neglected /\ state.last_level_update = hist.at

\* A recovery tick a day and a half after the old timestamp.
W_RecoveryRestartsTimer ==
    /\ AfterTick /\ hist.pre.is_neglected /\ SomeBarUp(hist.pre)
    /\ ~state.is_neglected
    /\ hist.at - hist.pre.last_level_update = DAY + DAY \div 2
    /\ state.last_level_update = hist.at

\* C8 as stated: a tick called with is_neglected = FALSE exactly k >= 1 whole
\* days after last_level_update raises level by k.
WholeDaysRaiseLevel ==
    AfterTick /\ ~hist.pre.is_neglected /\ DaysSince >= 1
              /\ hist.at - hist.pre.last_level_update = DaysSince * DAY =>
        state.level = hist.pre.level + DaysSince

\* C8 amended: it does so provided the pet is not neglected after the decay
\* of that tick.
WholeDaysRaiseLevelIfHealthy ==
    AfterTick /\ ~hist.pre.is_neglected /\ DaysSince >= 1
              /\ hist.at - hist.pre.last_level_update = DaysSince * DAY
              /\ SomeBarUp(state) =>
        state.level = hist.pre.level + DaysSince

\* The case of the specification: 172800 seconds, level up by 2.
W_TwoDaysTwoLevels ==
    /\ AfterTick /\ ~hist.pre.is_neglected /\ SomeBarUp(state)
    /\ hist.at - hist.pre.last_level_update = 172800
    /\ state.level = hist.pre.level + 2

\* C9: the first tick of a run started from a snapshot whose last_level_update
\* lies D >= 1 whole days back changes level by D: up when that tick finds the
\* pet not neglected, down to the floor of 1 when it finds it neglected.
OfflineDaysCount ==
    [][ LET D == (now - state.last_level_update) \div DAY
        IN  /\ hist.op = "init" /\ hist'.op = "tick"
            /\ D >= 1 /\ now - state.last_level_update = D * DAY
            => state'.level = IF state'.is_neglected
                              THEN Max(1, state.level - D)
                              ELSE state.level + D ]_vars

\* C11: a tick that finds the pet recovered from neglect leaves level
\* unchanged, however many days have passed since the old timestamp, and
\* restarts the day counter at its own time.
RecoveryKeepsLevel ==
    AfterTick /\ Recovered =>
        state.level = hist.pre.level /\ state.last_level_update = hist.at

\* A recovery tick two days after the old timestamp, at level 2.
W_RecoveryKeepsLevel ==
    /\ AfterTick /\ Recovered
    /\ DaysSince = 2 /\ hist.pre.level = 2
    /\ state.level = 2

\* The bars as mood sees them, and the mood that belongs to each.
Bars(s) == [hungry |-> Pct(100) - s.hunger, thirsty |-> Pct(100) - s.thirst,
            sad |-> s.happiness]
LowestBar(s) == Min(Bars(s).hungry, Min(Bars(s).thirsty, Bars(s).sad))
AfterMood == hist.op = "mood"

\* C12: for all bar values in [0, 100] mood returns happy if all three bars
\* are above 70; else hungry if food_bar < 30; else thirsty if water_bar < 30;
\* else sad if heart_bar < 30; else the mood of the minimum bar, food before
\* water before heart.
MoodTable ==
    AfterMood =>
        LET b == Bars(state)
            low == LowestBar(state)
        IN  /\ hist.ret \in {"happy", "hungry", "thirsty", "sad"}
            /\ hist.ret = "happy" <=>
                   (b.hungry > Pct(70) /\ b.thirsty > Pct(70) /\ b.sad > Pct(70))
            /\ hist.ret = "hungry" <=>
                   /\ ~(b.hungry > Pct(70) /\ b.thirsty > Pct(70) /\ b.sad > Pct(70))
                   /\ \/ b.hungry < Pct(30)
                      \/ /\ b.thirsty >= Pct(30) /\ b.sad >= Pct(30)
                         /\ b.hungry = low
            /\ hist.ret = "sad" <=>
                   /\ ~(b.hungry > Pct(70) /\ b.thirsty > Pct(70) /\ b.sad > Pct(70))
                   /\ b.hungry >= Pct(30) /\ b.thirsty >= Pct(30)
                   /\ \/ b.sad < Pct(30)
                      \/ b.sad = low /\ b.hungry > low /\ b.thirsty > low

\* The boundary of the specification: bars 70, 71, 71 give hungry.
W_MoodBoundary ==
    /\ AfterMood
    /\ Bars(state).hungry = Pct(70) /\ Bars(state).thirsty = Pct(71)
    /\ Bars(state).sad = Pct(71)
    /\ hist.ret = "hungry"

\* C13: whenever not all three bars are above 70, the mood returned belongs
\* to a bar whose value is the minimum of the three.
MoodOfLowestBar ==
    AfterMood /\ hist.ret # "happy" => Bars(state)[hist.ret] = LowestBar(state)

\* C10: a tick that observes k >= 1 whole days since last_level_update (the
\* timestamp it started from, no recovery in this tick) makes one adjustment
\* of size k by the neglect status it has just computed and sets
\* last_level_update to its own time.
SingleAdjustment ==
    AfterTick /\ ~Recovered /\ DaysSince >= 1 =>
        /\ state.level = IF state.is_neglected
                         THEN Max(1, hist.pre.level - DaysSince)
                         ELSE hist.pre.level + DaysSince
        /\ state.last_level_update = hist.at

\* A tick a day and a half late on a pet at level 2 that this very tick
\* finds neglected: one level down, and the half day is dropped.
W_SingleAdjustment ==
    /\ AfterTick /\ ~hist.pre.is_neglected /\ state.is_neglected
    /\ hist.at - hist.pre.last_level_update = DAY + DAY \div 2
    /\ hist.pre.level = 2 /\ state.level = 1
    /\ state.last_level_update = hist.at

\* The last input event was a pointer-up that ended a drag.
DragEnded == app.ev.type = "up" /\ app.ev.dragged # "None"

\* C14: a drag that starts inside the hit region of feed (drink, play) and
\* ends with a pointer-up inside the pet's hit region invokes that handler
\* once, whatever pointer moves came in between: the stat moves by the
\* configured amount, clamped, and the feedback trigger fires exactly once.
DropOnPetActs ==
    (DragEnded /\ app.ev.pos = "pet") =>
        /\ app.ev.acted = app.ev.dragged
        /\ app.ev.spawned = 1
        /\ hist.op = app.ev.dragged
        /\ state = Handle(app.ev.dragged, hist.pre, now)

\* C15: a drag that ends with a pointer-up outside the pet's hit region
\* invokes no handler and fires no feedback trigger, whatever pointer moves
\* came in between, and leaves the interaction state idle.
DropElsewhereCancels ==
    (DragEnded /\ app.ev.pos # "pet") =>
        /\ app.ev.acted = "None"
        /\ app.ev.spawned = 0
        /\ app.dragged_emoji = "None" /\ app.drag_pos = "None"

\* C16, as stated: an action handler is invoked in a frame only after the
\* frame's tick has been applied.
TickBeforeActions ==
    [][app'.frame.actions > app.frame.actions => app.frame.ticked]_vars

\* C16, amended: in every frame the action handlers are invoked before the
\* frame's tick is applied, and the tick is applied before the frame is
\* rendered (events, then tick, then render).
ActionsBeforeTick ==
    [][/\ app'.frame.actions > app.frame.actions => ~app.frame.ticked
       /\ (app.pc = "draw" /\ app'.pc # "draw") => app.frame.ticked]_vars

\* A frame in which a handler was invoked and the tick applied is about to
\* be rendered.
W_ActionThenTick ==
    app.pc = "draw" /\ app.frame.actions >= 1 /\ app.frame.ticked

\* C17, as stated: at most one action handler is invoked in a frame.
OneActionPerFrame == app.frame.actions <= 1

\* C17, amended: every input event invokes at most one action handler, so a
\* frame invokes at most as many handlers as its batch has events.
OneActionPerEvent ==
    /\ app.ev.spawned <= 1
    /\ app.frame.actions <= app.frame.events

\* Two handlers were invoked in one frame.
W_TwoActionsInFrame == app.frame.actions = 2 /\ app.frame.events = 2

\* C18: a save that fails or is interrupted leaves a complete snapshot in
\* the file, the previous one or the new one (or no file, when there never
\* was one), and leaves the in-memory state unchanged.
SaveAllOrNothing ==
    hist.op = "save" =>
        /\ file.kind \in {"json", "none"}
        /\ state = hist.pre

\* C19: the state a start produces is the default state or a valid
\* snapshot: every stat in 0..100 and level at least 1, whatever the file
\* holds.
LoadNeverInvalid ==
    hist.op = "init" => Valid(state) /\ state.level >= 1

\* The quit event has just been handled.
QuitHandled == app.ev.type = "quit" /\ ~app.frame.ticked

\* C20: a quit event is accepted wherever handle_events takes events, idle
\* or dragging; its handling saves the state as it is after every handler
\* invoked before it (the file holds exactly that state when the save went
\* through) and clears the loop flag; the loop ends only after a quit event,
\* and after a quit event it always ends.
QuitSavesAndTerminates ==
    /\ [](app.pc = "events" => ENABLED Quit)
    /\ [](QuitHandled =>
            /\ ~app.running
            /\ hist.op = "save" /\ hist.pre = state
            /\ hist.ret = "saved" => (file.kind = "json" /\ file.data = state))
    /\ [][(app.pc # "stopped" /\ app'.pc = "stopped") => app.ev.type = "quit"]_vars
    /\ (app.ev.type = "quit" ~> app.pc = "stopped")

\* A quit event arrived during a drag, in the batch of a key that fed the
\* pet, and the snapshot holds the state after the feed.
W_QuitWhileDragging ==
    /\ QuitHandled /\ app.ev.dragged # "None"
    /\ app.frame.actions >= 1
    /\ hist.ret = "saved" /\ file.data = state
    /\ state.happiness < Pct(100)

\* C21: a weather fetch that succeeds leaves its result in App.weather,
\* whichever other fetches are in flight or finished before it; one that
\* fails leaves the value that was there, or the placeholder (0, "N/A",
\* clouds) when there was none; neither changes the position or the running
\* flag of the main loop.
WeatherMailbox ==
    /\ [](app.wx.outcome = "ok" => app.weather = app.wx.result)
    /\ [](app.wx.outcome = "failed" =>
            app.weather = IF app.wx.pre = None THEN Weather(0, "N/A", "clouds")
                          ELSE app.wx.pre)
    /\ [][app'.wx # app.wx /\ app.pc = "events" =>
            /\ app'.pc = app.pc /\ app'.running = app.running
            /\ state' = state]_vars

\* Two requests overlapped: the one that started first finished last, after
\* the other had stored a different value, and its result is the weather.
W_LastFetchWins ==
    /\ app.wx.outcome = "ok" /\ app.wx.pre # None
    /\ app.wx.started < app.wx.pre_ts
    /\ app.wx.result # app.wx.pre
    /\ app.weather = app.wx.result

\* C22: reset leaves the default state with last_level_update at the time
\* of the reset, whatever the state before; the tick that follows it, before
\* a whole day has passed since the reset, leaves level at 1.
ResetToDefaults ==
    /\ [](hist.op = "reset" =>
            /\ state.hunger = 0 /\ state.thirst = 0
            /\ state.happiness = Pct(100)
            /\ state.level = 1 /\ ~state.is_neglected
            /\ state.last_level_update = hist.at)
    /\ [][(hist.op = "reset" /\ hist'.op = "tick" /\ now' - hist.at < DAY) =>
            state'.level = 1]_vars

\* A neglected pet above level 1 has been reset, later than the start.
W_ResetFromNeglect ==
    /\ hist.op = "reset" /\ hist.at > StartTime
    /\ hist.pre.level > 1 /\ hist.pre.is_neglected
    /\ state.level = 1

\* C23: for an amount >= 0, feed, drink and play change their own stat to
\* max(0, hunger - amount), max(0, thirst - amount), min(100, happiness +
\* amount) and leave every other field of the state as it was.
HandlersExact ==
    hist.arg >= 0 =>
        /\ hist.op = "feed" =>
              state = [hist.pre EXCEPT !.hunger = Max(0, @ - Pct(hist.arg))]
        /\ hist.op = "drink" =>
              state = [hist.pre EXCEPT !.thirst = Max(0, @ - Pct(hist.arg))]
        /\ hist.op = "play" =>
              state = [hist.pre EXCEPT
                          !.happiness = Min(Pct(100), @ + Pct(hist.arg))]

\* play(200) on a half-full heart bar stopped at 100.
W_PlayClamped ==
    /\ hist.op = "play" /\ hist.arg = 200
    /\ hist.pre.happiness = Pct(50)
    /\ state.happiness = Pct(100)

\* C24: every event that invokes feed, drink or play fires the feedback
\* trigger once and the trigger adds the three hearts of the animation,
\* also before the first frame has been drawn.
FeedbackWithEveryAction ==
    app.ev.acted # "None" => app.ev.spawned = 1 /\ app.ev.hearts = 3

\* The region of the emoji rectangles that holds a point, looked up in the
\* order feed, drink, play; "None" when there is none.
RegionAt(pos) ==
    IF app.emoji_rects = << >> THEN "None"
    ELSE IF pos = "feed" THEN "feed"
    ELSE IF pos = "drink" THEN "drink"
    ELSE IF pos = "play" THEN "play"
    ELSE "None"

\* C25: a pointer-down inside an action's hit region starts the drag of
\* that action at that point; one outside every region leaves the
\* interaction state as it was (idle stays idle); a pointer-move leaves the
\* dragged action as it was and records its position only during a drag;
\* neither invokes a handler nor changes the pet.
DownAndMove ==
    /\ [](app.ev.type = "down" =>
            /\ app.ev.acted = "None" /\ app.ev.spawned = 0
            /\ IF RegionAt(app.ev.pos) # "None"
               THEN /\ app.dragged_emoji = RegionAt(app.ev.pos)
                    /\ app.drag_pos = app.ev.pos
               ELSE /\ app.dragged_emoji = app.ev.dragged
                    /\ app.drag_pos = app.ev.drag_pos)
    /\ [](app.ev.type = "move" =>
            /\ app.ev.acted = "None" /\ app.ev.spawned = 0
            /\ app.dragged_emoji = app.ev.dragged
            /\ app.drag_pos = IF app.ev.dragged # "None" THEN app.ev.pos
                              ELSE "None")
    /\ [][(app'.frame.events > app.frame.events
              /\ app'.ev.type \in {"down", "move"}) =>
            state' = state /\ hist' = hist]_vars

\* A pointer-down on the drink emoji started a drag while the pet was idle.
W_DragStarted ==
    /\ app.ev.type = "down" /\ app.ev.pos = "drink"
    /\ app.ev.dragged = "None"
    /\ app.dragged_emoji = "drink" /\ app.drag_pos = "drink"

\* C26: on pointer-up the handler of the dragged action is invoked if and
\* only if a drag is in progress, the pet's hit region exists and holds the
\* recorded drag position; the position of the pointer-up is not looked at.
DropUsesRecordedPosition ==
    app.ev.type = "up" =>
        /\ app.ev.acted # "None" <=>
              /\ app.ev.dragged # "None"
              /\ app.pet_rect # "None"
              /\ app.ev.drag_pos = "pet"
        /\ app.ev.acted # "None" => app.ev.acted = app.ev.dragged

\* A drag of play that was moved onto the pet was released elsewhere and
\* play was invoked.
W_DropByRecordedPosition ==
    /\ app.ev.type = "up" /\ app.ev.pos = "else"
    /\ app.ev.drag_pos = "pet"
    /\ app.ev.acted = "play"

\* C27: right after a tick, less than a day lies between the clock and
\* last_level_update; a tick that crosses a day boundary sets
\* last_level_update to its own time.
DayCounterBelowOneDay ==
    (AfterTick /\ now = hist.at) =>
        /\ 0 <= now - state.last_level_update
        /\ now - state.last_level_update < DAY
        /\ hist.at - hist.pre.last_level_update >= DAY =>
              state.last_level_update = hist.at

\* A tick a day and a half after the last adjustment restarted the counter
\* at its own time.
W_RemainderDropped ==
    /\ AfterTick /\ now = hist.at
    /\ hist.at - hist.pre.last_level_update = DAY + DAY \div 2
    /\ state.last_level_update = hist.at

\* The program has just been started on a save file that leaves
\* last_level_update at 0.0: no file, or content that load rejects.
FreshStart == hist.op = "init" /\ file.kind # "json"

\* C28: a pet constructed without a usable save has last_level_update at
\* the construction time, and its first tick, before a whole day has passed,
\* leaves level at 1.
FreshPetStamped ==
    /\ [](FreshStart => state.last_level_update = hist.at /\ state.level = 1)
    /\ [][(FreshStart /\ hist'.op = "tick" /\ now' - hist.at < DAY) =>
            state'.level = 1]_vars

\* The program was started on an unusable save file, later than the first
\* start, and the pet is stamped with that time.
W_FreshAfterBadFile ==
    /\ FreshStart /\ file.kind = "garbage"
    /\ hist.at > StartTime
    /\ state.last_level_update = hist.at

\* C29: level goes down only in a tick that finds all three bars at 0 with
\* a whole day or more since last_level_update, or in reset; every other
\* operation that changes level raises it, and only tick does so.
LevelFallsOnlyByNeglect ==
    [][/\ state'.level < state.level =>
             \/ hist'.op = "reset"
             \/ /\ hist'.op = "tick"
                /\ AllBarsZero(state') /\ state'.is_neglected
                /\ now' - state.last_level_update >= DAY
       /\ state'.level # state.level => hist'.op \in {"tick", "reset"}]_vars

\* A tick took a level from a neglected pet.
W_LevelFell ==
    /\ AfterTick /\ hist.pre.is_neglected
    /\ state.level = hist.pre.level - 1

================================================================
